---- MODULE Spec2Model ----
(***************************************************************************)
(* Model of the scanner capture / visualisation scripts:                   *)
(*   serialmonitor.py   read_serial_data, main            (prog "serial")  *)
(*   serialmonitor2.py  read_scanner_data, main           (prog "scanner") *)
(*   test3.py, test4.py ScannerVisualizer            (prog "vis3", "vis4") *)
(*   test2.py           read_points_from_file, convert_to_cartesian        *)
(*                      (prog "viewer", and after a "scanner" run saved)   *)
(* A text line is the sequence of its comma-separated fields, each field a *)
(* token (a string).  A float is a fixed-point integer, in thousandths.    *)
(***************************************************************************)
EXTENDS Integers, Sequences, FiniteSets, TLC

\* ------------------------------------------------------------------ bounds
MaxLines == 4        \* lines the device emits in one session
MaxBuf == 2          \* lines waiting in the serial input buffer
MaxInterrupts == 1   \* user interrupts (Ctrl+C) in one run
MaxFaults == 1       \* serial read faults in one run
MaxFileLines == 2    \* lines after the raw-data header of an input file
MaxTuples == 2       \* tuples of an argument of convert_to_cartesian

\* Fixed-point scale of every float, and the tolerance of a comparison.
Scale == 1000
Tol == 20

\* ------------------------------------------------------------------ tokens
\* float(token): the tokens float() accepts, with their value (thousandths).
FloatOf ==
  ("0" :> 0) @@ ("3" :> 3000) @@ ("-3" :> -3000) @@ ("4" :> 4000) @@
  ("-4" :> -4000) @@ ("5" :> 5000) @@ ("7" :> 7000) @@ ("9" :> 9000) @@
  ("10" :> 10000) @@ ("10.0" :> 10000) @@ ("20" :> 20000) @@ ("30" :> 30000) @@
  ("45" :> 45000) @@ ("50" :> 50000) @@ ("80" :> 80000) @@ ("90" :> 90000)

IsFloat(tok) == tok \in DOMAIN FloatOf

\* The detection phrases of the scripts that occur in a token (substring test).
PhrasesIn(tok) ==
  CASE tok = "Scanner initialized" -> {"Scanner initialized", "initialized"}
    [] tok = "Starting full 3D scan" -> {"Starting full 3D scan", "Starting"}
    [] tok = "Scanning at vertical angle 5" -> {"Scanning at vertical angle"}
    [] tok = "Scan complete!" -> {"Scan complete!", "Scan complete"}
    [] tok = "Scan complete" -> {"Scan complete"}
    [] tok = "Scan complete! Sensor ready" -> {"Scan complete!", "Scan complete", "ready"}
    [] tok = "Failed to read sensor" -> {"Failed"}
    [] tok = "clk_drv:" -> {"clk_drv:"}
    [] tok = "mode:" -> {"mode:"}
    [] OTHER -> {}

\* `msg in line`
Contains(line, msg) == \E i \in 1..Len(line) : msg \in PhrasesIn(line[i])

ContainsAny(line, msgs) == \E m \in msgs : Contains(line, m)

\* ------------------------------------------------------------------- lines
EmptyLine == <<"">>
Undecodable == <<"\\xff">>
EchoS == <<"S">>
InitLine == <<"Scanner initialized">>
StartLine == <<"Starting full 3D scan">>
CompleteLine == <<"Scan complete!">>
FailedLine == <<"Failed to read sensor">>
ScenarioB == <<"10.0", "clk_drv:", "mode:">>
Data5C == <<"10", "20", "30", "5", "45">>
Data5A == <<"3", "4", "0", "5", "5">>
Data5B == <<"0", "-4", "7", "9", "4">>
Bad5 == <<"3", "x", "0", "5", "5">>
Data4A == <<"80", "0", "0", "0">>
Data4B == <<"80", "90", "0", "50">>
Bad4 == <<"80", "x", "0", "0">>
Data3A == <<"3", "4", "0">>
Data3B == <<"0", "-4", "7">>

NoBangLine == <<"Scan complete">>
ReadyCompleteLine == <<"Scan complete! Sensor ready">>
CommaCompleteLine == <<"Scan complete", "3", "4">>

ScenarioC == <<InitLine, EchoS, Data5C, CompleteLine>>

\* What the device may put on the wire, per script.
LinesOf(p) ==
  CASE p = "serial" ->
         {EmptyLine, EchoS, Data4A, Data4B, Bad4, Data3A, CompleteLine, Undecodable}
    [] p = "scanner" ->
         {EmptyLine, EchoS, InitLine, Data5C, Data5A, Data5B, Bad5, Data3A,
          CompleteLine, NoBangLine, Undecodable}
    [] OTHER ->
         {EmptyLine, InitLine, StartLine, Data3A, Data3B, ScenarioB, Data4A,
          CompleteLine, ReadyCompleteLine, CommaCompleteLine, FailedLine}

NoLine == <<>>

\* bytes.decode('utf-8') succeeds
Decodable(line) == line # Undecodable

\* [float(v) for v in values]
Floats(line) == [i \in 1..Len(line) |-> FloatOf[line[i]]]

AllFloat(line) == \A i \in 1..Len(line) : IsFloat(line[i])

\* ------------------------------------------------------------------- state
VARIABLES
  prog,        \* which script runs
  pc,          \* its position
  inbuf,       \* the serial input buffer: lines sent and not yet read
  sent,        \* number of lines the device has sent
  line,        \* the local `line` of the read loop
  points,      \* measurement_points / points_list / self.points
  groups,      \* points_by_angle
  raw,         \* raw_data
  received,    \* what main got back from the read function
  interrupts,  \* KeyboardInterrupts delivered
  faults,      \* SerialExceptions raised by the port
  scanning,    \* self.scanning
  matched,     \* lines of ScenarioC processed so far, in order (-1: another input)
  file,        \* scanner_data.txt
  measurement, \* the list read_points_from_file returns
  cart,        \* the array convert_to_cartesian returns
  shown,       \* what read_scanner_data printed for the last line it skipped
  dev,         \* the rig: "idle", "scanning" once it got the start byte, "done"
  owed         \* the samples the rig sent while scanning, in order

vars == <<prog, pc, inbuf, sent, line, points, groups, raw, received,
          interrupts, faults, scanning, matched, file, measurement, cart,
          shown, dev, owed>>

Progs == {"serial", "scanner", "vis3", "vis4", "viewer", "test"}

NoGroups == [a \in {} |-> <<>>]
NoCollection == [points |-> <<>>, groups |-> NoGroups, raw |-> <<>>]
NoFile == [exists |-> FALSE, lines |-> <<>>]

\* The read loop is running (the port is open and the function has not ended).
LoopPcs == {"poll", "read", "parse", "append",
            "check", "validtry", "status", "app1", "app2", "app3"}

\* -------------------------------------------------- the device (the rig)
\* A line the rig sends as a sample of the scan the start byte asked for
\* (the x,y,z format ScannerVisualizer parses).
IsSample(l) == Len(l) = 3 /\ AllFloat(l)

\* A line with which the rig ends its scan: the completion marker, or the
\* report of a failure.
EndsScan(l) == Contains(l, "Scan complete") \/ Contains(l, "Failed")

\* The rig puts one more line on the wire.  While it is scanning, a sample is
\* owed to the script, and a completion marker or a failure report ends the
\* scan.
DeviceSend ==
  /\ prog \in {"serial", "scanner", "vis3", "vis4"}
  /\ pc \in LoopPcs \cup {"write", "startwrite", "setscan", "reset", "ticks"}
  /\ sent < MaxLines
  /\ Len(inbuf) < MaxBuf
  /\ \E l \in LinesOf(prog) :
       /\ inbuf' = Append(inbuf, l)
       /\ owed' = IF dev = "scanning" /\ IsSample(l)
                    THEN Append(owed, Floats(l)) ELSE owed
       /\ dev' = IF dev = "scanning" /\ EndsScan(l) THEN "done" ELSE dev
  /\ sent' = sent + 1
  /\ UNCHANGED <<prog, pc, line, points, groups, raw, received, interrupts,
                 faults, scanning, matched, file, measurement, cart, shown>>

\* setup_serial_connection / connect_to_esp32 / connect_serial, and the
\* caller's `if not ser: return`.
Connect ==
  /\ pc = "connect"
  /\ \E ok \in BOOLEAN :
       pc' = IF ~ok THEN "closed"
             ELSE CASE prog = "serial" -> "poll"
                    [] prog = "scanner" -> "write"
                    [] OTHER -> "startwrite"
  /\ UNCHANGED <<prog, inbuf, sent, line, points, groups, raw, received,
                 interrupts, faults, scanning, matched, file, measurement, cart,
                 shown, dev, owed>>

\* ------------------------------------------- serialmonitor.py read_serial_data
\* `if ser.in_waiting:` (else time.sleep and poll again); the property read
\* may raise SerialException, which nothing in the script catches.
SerialPoll ==
  /\ prog = "serial" /\ pc = "poll"
  /\ \E fault \in BOOLEAN :
       IF fault
         THEN /\ faults < MaxFaults
              /\ faults' = faults + 1
              /\ pc' = "crashed"
         ELSE /\ faults' = faults
              /\ pc' = IF inbuf = <<>> THEN "poll" ELSE "read"
  /\ UNCHANGED <<prog, inbuf, sent, line, points, groups, raw, received,
                 interrupts, scanning, matched, file, measurement, cart,
                 shown, dev, owed>>

\* line = ser.readline().decode('utf-8').strip(): outside the inner try, so a
\* UnicodeDecodeError or a SerialException leaves the function.
SerialRead ==
  /\ prog = "serial" /\ pc = "read"
  /\ \E fault \in BOOLEAN :
       IF fault
         THEN /\ faults < MaxFaults
              /\ faults' = faults + 1
              /\ pc' = "crashed"
              /\ UNCHANGED <<inbuf, line>>
         ELSE /\ faults' = faults
              /\ inbuf' = Tail(inbuf)
              /\ IF Decodable(Head(inbuf))
                   THEN line' = Head(inbuf) /\ pc' = "parse"
                   ELSE line' = line /\ pc' = "crashed"
  /\ UNCHANGED <<prog, sent, points, groups, raw, received, interrupts,
                 scanning, matched, file, measurement, cart,
                 shown, dev, owed>>

SerialAcceptsAnyCount(l) == l # EmptyLine /\ AllFloat(l)

\* The 4-field test of read_serial_data: `if line:`, len(values) == 4 and the
\* four float() calls (a ValueError is caught and the line skipped).
SerialAccepts(l) == l # EmptyLine /\ Len(l) = 4 /\ AllFloat(l)

SerialParse ==
  /\ prog = "serial" /\ pc = "parse"
  /\ pc' = IF SerialAccepts(line) THEN "append" ELSE "poll"
  /\ UNCHANGED <<prog, inbuf, sent, line, points, groups, raw, received,
                 interrupts, faults, scanning, matched, file, measurement, cart,
                 shown, dev, owed>>

\* point = (distance, platform_angle, vertical_angle, height); append
SerialAppend ==
  /\ prog = "serial" /\ pc = "append"
  /\ points' = Append(points, Floats(line))
  /\ pc' = "poll"
  /\ UNCHANGED <<prog, inbuf, sent, line, groups, raw, received, interrupts,
                 faults, scanning, matched, file, measurement, cart,
                 shown, dev, owed>>

\* except KeyboardInterrupt: return measurement_points
SerialInterrupt ==
  /\ prog = "serial" /\ pc \in {"poll", "read", "parse", "append"}
  /\ interrupts < MaxInterrupts
  /\ interrupts' = interrupts + 1
  /\ received' = [NoCollection EXCEPT !.points = points]
  /\ pc' = "returned"
  /\ UNCHANGED <<prog, inbuf, sent, line, points, groups, raw, faults,
                 scanning, matched, file, measurement, cart,
                 shown, dev, owed>>

\* ---------------------------------------- serialmonitor2.py read_scanner_data
BootMessages == {"SPIWP:", "clk_drv:", "mode:", "load:", "Scanner initialized",
                 "Starting full 3D scan", "Scanning at vertical angle"}

\* is_valid_data_line, the loop over boot_messages (before its try block)
BootMatch(l) == ContainsAny(l, BootMessages)

\* is_valid_data_line, the try block: five fields, each accepted by float()
TryValid(l) == Len(l) = 5 /\ AllFloat(l)

IsValidDataLine(l) == ~BootMatch(l) /\ TryValid(l)

\* The ScenarioC lines processed so far, once line l has been processed too.
Advance(m, l) ==
  IF m >= 0 /\ m < Len(ScenarioC) /\ ScenarioC[m + 1] = l THEN m + 1 ELSE -1

\* ser.write(b'S'), before the loop
ScanWrite ==
  /\ prog = "scanner" /\ pc = "write"
  /\ pc' = "poll"
  /\ UNCHANGED <<prog, inbuf, sent, line, points, groups, raw, received,
                 interrupts, faults, scanning, matched, file, measurement, cart,
                 shown, dev, owed>>

\* `if ser.in_waiting:`
ScanPoll ==
  /\ prog = "scanner" /\ pc = "poll"
  /\ \E fault \in BOOLEAN :
       IF fault
         THEN /\ faults < MaxFaults
              /\ faults' = faults + 1
              /\ pc' = "crashed"
         ELSE /\ faults' = faults
              /\ pc' = IF inbuf = <<>> THEN "poll" ELSE "read"
  /\ UNCHANGED <<prog, inbuf, sent, line, points, groups, raw, received,
                 interrupts, scanning, matched, file, measurement, cart,
                 shown, dev, owed>>

\* line = ser.readline().decode('utf-8').strip(), outside the inner try
ScanRead ==
  /\ prog = "scanner" /\ pc = "read"
  /\ \E fault \in BOOLEAN :
       IF fault
         THEN /\ faults < MaxFaults
              /\ faults' = faults + 1
              /\ pc' = "crashed"
              /\ UNCHANGED <<inbuf, line>>
         ELSE /\ faults' = faults
              /\ inbuf' = Tail(inbuf)
              /\ IF Decodable(Head(inbuf))
                   THEN line' = Head(inbuf) /\ pc' = "check"
                   ELSE line' = line /\ pc' = "crashed"
  /\ UNCHANGED <<prog, sent, points, groups, raw, received, interrupts,
                 scanning, matched, file, measurement, cart,
                 shown, dev, owed>>

\* `if not line or not is_valid_data_line(line)`, up to the end of the loop
\* over boot_messages
ScanCheck ==
  /\ prog = "scanner" /\ pc = "check"
  /\ pc' = IF line = EmptyLine \/ BootMatch(line) THEN "status" ELSE "validtry"
  /\ UNCHANGED <<prog, inbuf, sent, line, points, groups, raw, received,
                 interrupts, faults, scanning, matched, file, measurement, cart,
                 shown, dev, owed>>

\* is_valid_data_line, its try block and the result
ScanValidTry ==
  /\ prog = "scanner" /\ pc = "validtry"
  /\ pc' = IF TryValid(line) THEN "parse" ELSE "status"
  /\ UNCHANGED <<prog, inbuf, sent, line, points, groups, raw, received,
                 interrupts, faults, scanning, matched, file, measurement, cart,
                 shown, dev, owed>>

\* What read_scanner_data prints for a line it skips: the if/elif chain over
\* "Starting full 3D scan", "Scan complete!" and "Scanning at vertical angle".
StatusPrint(l) ==
  IF Contains(l, "Starting full 3D scan") THEN "started"
  ELSE IF Contains(l, "Scan complete!") THEN "completed"
  ELSE IF Contains(l, "Scanning at vertical angle") THEN "angle"
  ELSE "none"

\* The status prints of a skipped line ("Scan complete!" among them), then
\* `continue`
ScanStatus ==
  /\ prog = "scanner" /\ pc = "status"
  /\ pc' = "poll"
  /\ matched' = Advance(matched, line)
  /\ shown' = StatusPrint(line)
  /\ UNCHANGED <<prog, inbuf, sent, line, points, groups, raw, received,
                 interrupts, faults, scanning, file, measurement, cart,
                 dev, owed>>

\* x, y, z, vert_angle, vert_dist = map(float, line.split(',')); a ValueError
\* skips the line
ScanParse ==
  /\ prog = "scanner" /\ pc = "parse"
  /\ IF Len(line) = 5 /\ AllFloat(line)
       THEN pc' = "app1" /\ matched' = matched
       ELSE pc' = "poll" /\ matched' = Advance(matched, line)
  /\ UNCHANGED <<prog, inbuf, sent, line, points, groups, raw, received,
                 interrupts, faults, scanning, file, measurement, cart,
                 shown, dev, owed>>

\* point_3d = (x, y, z)
Point3d(l) == SubSeq(Floats(l), 1, 3)

\* points_by_angle[vert_angle].append(point_3d), on a defaultdict(list)
GroupAppend(g, angle, p) ==
  IF angle \in DOMAIN g
    THEN [g EXCEPT ![angle] = Append(@, p)]
    ELSE g @@ (angle :> <<p>>)

\* points_list.append(point_3d), were it to skip a point the list already holds
ScanApp1Dedup ==
  /\ prog = "scanner" /\ pc = "app1"
  /\ points' = IF \E i \in 1..Len(points) : points[i] = Point3d(line)
                 THEN points ELSE Append(points, Point3d(line))
  /\ pc' = "app2"
  /\ UNCHANGED <<prog, inbuf, sent, line, groups, raw, received, interrupts,
                 faults, scanning, matched, file, measurement, cart,
                 shown, dev, owed>>

\* points_list.append(point_3d)
ScanApp1 ==
  /\ prog = "scanner" /\ pc = "app1"
  /\ points' = Append(points, Point3d(line))
  /\ pc' = "app2"
  /\ UNCHANGED <<prog, inbuf, sent, line, groups, raw, received, interrupts,
                 faults, scanning, matched, file, measurement, cart,
                 shown, dev, owed>>

ScanApp2 ==
  /\ prog = "scanner" /\ pc = "app2"
  /\ groups' = GroupAppend(groups, Floats(line)[4], Point3d(line))
  /\ pc' = "app3"
  /\ UNCHANGED <<prog, inbuf, sent, line, points, raw, received, interrupts,
                 faults, scanning, matched, file, measurement, cart,
                 shown, dev, owed>>

\* raw_data.append((x, y, z, vert_angle, vert_dist)), the print, the next
\* iteration
ScanApp3 ==
  /\ prog = "scanner" /\ pc = "app3"
  /\ raw' = Append(raw, Floats(line))
  /\ pc' = "poll"
  /\ matched' = Advance(matched, line)
  /\ UNCHANGED <<prog, inbuf, sent, line, points, groups, received,
                 interrupts, faults, scanning, file, measurement, cart,
                 shown, dev, owed>>

\* A KeyboardInterrupt raised inside the try block of is_valid_data_line is
\* caught by its bare `except:`, which returns False: the line is skipped and
\* the loop goes on.
ScanInterruptSwallowed ==
  /\ prog = "scanner" /\ pc = "validtry"
  /\ interrupts < MaxInterrupts
  /\ interrupts' = interrupts + 1
  /\ pc' = "status"
  /\ UNCHANGED <<prog, inbuf, sent, line, points, groups, raw, received,
                 faults, scanning, matched, file, measurement, cart,
                 shown, dev, owed>>

\* except KeyboardInterrupt, then return points_list, points_by_angle, raw_data
ScanInterrupt ==
  /\ prog = "scanner"
  /\ pc \in {"poll", "read", "check", "status", "parse", "app1", "app2", "app3"}
  /\ interrupts < MaxInterrupts
  /\ interrupts' = interrupts + 1
  /\ received' = [points |-> points, groups |-> groups, raw |-> raw]
  /\ pc' = "returned"
  /\ UNCHANGED <<prog, inbuf, sent, line, points, groups, raw, faults,
                 scanning, matched, file, measurement, cart,
                 shown, dev, owed>>

\* ------------------------------------------------ scanner_data.txt, as text
\* A line of the file is its kind and, for the text of a tuple, the values a
\* Python tuple literal holds: f"{data}" writes repr(tuple), eval reads it.
HdrPoints == [kind |-> "hdr_points", vals |-> <<>>]  \* === 3D Points (x, y, z) ===
HdrAngles == [kind |-> "hdr_angles", vals |-> <<>>]  \* === Points by Vertical Angle ===
HdrRaw == [kind |-> "hdr_raw", vals |-> <<>>]        \* === Raw Data (x, y, ...) ===
BlankLine == [kind |-> "blank", vals |-> <<>>]
CsvHeader == [kind |-> "csv_header", vals |-> <<>>]  \* distance,platform_angle,...
Garbage == [kind |-> "garbage", vals |-> <<>>]       \* "(3.0, 4.0," : no expression
WordLine == [kind |-> "word", vals |-> <<>>]         \* text without a comma
AngleLine(a) == [kind |-> "angle", vals |-> <<a>>]   \* Angle 5.0°:
CsvLine(t) == [kind |-> "csv", vals |-> t]           \* 80.0,90.0,0.0,50.0

\* f"{point}\n": the repr of a tuple of floats
Repr(t) == [kind |-> "tuple", vals |-> t]

\* eval(line.strip()) raises nothing
Evaluable(l) == l.kind = "tuple"

\* eval(line.strip())
Eval(l) == l.vals

\* ',' in line
HasComma(l) ==
  \/ l.kind \in {"hdr_points", "hdr_raw", "csv_header", "csv", "garbage"}
  \/ l.kind = "tuple" /\ Len(l.vals) >= 1

\* line.strip() is not empty
NonBlank(l) == l.kind # "blank"

\* "=== Raw Data" in line
IsRawHeader(l) == l.kind = "hdr_raw"

RECURSIVE SortedSeq(_)
\* sorted(points_by_angle.keys())
SortedSeq(S) ==
  IF S = {} THEN <<>>
  ELSE LET m == CHOOSE x \in S : \A y \in S : x <= y
       IN <<m>> \o SortedSeq(S \ {m})

ReprAll(ts) == [i \in 1..Len(ts) |-> Repr(ts[i])]

RECURSIVE AngleSections(_, _)
\* for angle in sorted(...): "\nAngle a°:\n", then the group's points
AngleSections(g, keys) ==
  IF keys = <<>> THEN <<>>
  ELSE <<BlankLine, AngleLine(Head(keys))>> \o ReprAll(g[Head(keys)])
       \o AngleSections(g, Tail(keys))

\* save_data_to_file
SaveDataToFile(pl, pba, rd) ==
  [exists |-> TRUE,
   lines |-> <<HdrPoints>> \o ReprAll(pl)
             \o <<BlankLine, HdrAngles>> \o AngleSections(pba, SortedSeq(DOMAIN pba))
             \o <<BlankLine, HdrRaw>> \o ReprAll(rd)]

\* save_measurements
SaveMeasurements(pts) ==
  [exists |-> TRUE,
   lines |-> <<CsvHeader>> \o [i \in 1..Len(pts) |-> CsvLine(pts[i])]]

\* serialmonitor.py main, after read_serial_data returned: save when there are
\* points, then ser.close()
SerialMainSave ==
  /\ prog = "serial" /\ pc = "returned"
  /\ file' = IF received.points # <<>> THEN SaveMeasurements(received.points) ELSE file
  /\ pc' = "closed"
  /\ UNCHANGED <<prog, inbuf, sent, line, points, groups, raw, received,
                 interrupts, faults, scanning, matched, measurement, cart,
                 shown, dev, owed>>

\* serialmonitor2.py main, after read_scanner_data returned
ScanMainSave ==
  /\ prog = "scanner" /\ pc = "returned"
  /\ file' = IF received.points # <<>>
               THEN SaveDataToFile(received.points, received.groups, received.raw)
               ELSE file
  /\ pc' = "closed"
  /\ UNCHANGED <<prog, inbuf, sent, line, points, groups, raw, received,
                 interrupts, faults, scanning, matched, measurement, cart,
                 shown, dev, owed>>

\* ------------------------------------------------------- numpy, fixed point
RECURSIVE Newton(_, _)
Newton(n, r) ==
  LET r2 == (r + n \div r) \div 2
  IN IF r2 >= r THEN r ELSE Newton(n, r2)

\* np.sqrt of a product of two floats (millionths in, thousandths out)
Sqrt(n) == IF n = 0 THEN 0 ELSE Newton(n, 40000)

\* the product of two floats
Mul(a, b) == (a * b + Scale \div 2) \div Scale

\* np.degrees(np.arctan2(y, x)), in (-180, 180]
Atan2Deg(y, x) ==
  CASE y = 0 /\ x >= 0 -> 0
    [] y = 0 /\ x < 0 -> 180000
    [] x = 0 /\ y > 0 -> 90000
    [] x = 0 /\ y < 0 -> -90000
    [] 3 * y = 4 * x /\ x > 0 -> 53130
    [] y = 2 * x /\ x > 0 -> 63435

\* np.cos(np.radians(a)) and np.sin(np.radians(a))
CosDeg(a) ==
  CASE a = 0 -> 1000 [] a = 90000 -> 0 [] a = 180000 -> -1000
    [] a \in {270000, -90000} -> 0 [] a = 53130 -> 600 [] a = 63435 -> 447

SinDeg(a) ==
  CASE a = 0 -> 0 [] a = 90000 -> 1000 [] a = 180000 -> 0
    [] a \in {270000, -90000} -> -1000 [] a = 53130 -> 800 [] a = 63435 -> 894

\* ------------------------------------------------------------------ test2.py
\* `if platform_angle < 0: platform_angle += 360`
Normalize(a) == IF a < 0 THEN a + 360000 ELSE a

\* The tuple read_points_from_file appends for one evaluated 5-tuple.
Reconstruct(v) ==
  LET x == v[1]
      y == v[2]
      z == v[3]
      vert_angle == v[4]
      vert_dist == v[5]
      distance == Sqrt(x * x + y * y)
      platform_angle == Normalize(Atan2Deg(y, x))
  IN <<vert_dist, platform_angle, vert_angle, z>>

RECURSIVE ReadLines(_, _, _)
\* The loop over the file's lines: [err |-> an exception was raised,
\* pts |-> measurement_points so far].
ReadLines(ls, start_reading, acc) ==
  IF ls = <<>> THEN [err |-> FALSE, pts |-> acc]
  ELSE LET l == Head(ls) IN
    IF IsRawHeader(l) THEN ReadLines(Tail(ls), TRUE, acc)
    ELSE IF start_reading /\ NonBlank(l) /\ HasComma(l)
      THEN IF ~Evaluable(l) \/ Len(Eval(l)) # 5
             THEN [err |-> TRUE, pts |-> acc]
             ELSE ReadLines(Tail(ls), start_reading, Append(acc, Reconstruct(Eval(l))))
      ELSE ReadLines(Tail(ls), start_reading, acc)

ReadPointsPartial(f) ==
  IF ~f.exists THEN <<>> ELSE ReadLines(f.lines, FALSE, <<>>).pts

\* read_points_from_file: [] when the file is missing or an exception was
\* raised, else the points
ReadPointsFromFile(f) ==
  IF ~f.exists THEN <<>>
  ELSE LET r == ReadLines(f.lines, FALSE, <<>>)
       IN IF r.err THEN <<>> ELSE r.pts

\* convert_to_cartesian with the third field of a tuple taken for the height
ConvertByVerticalAngle(mp) ==
  [i \in 1..Len(mp) |->
     <<Mul(mp[i][1], CosDeg(mp[i][2])), Mul(mp[i][1], SinDeg(mp[i][2])), mp[i][3]>>]

\* convert_to_cartesian (test.py and test2.py define the same function)
ConvertToCartesian(mp) ==
  [i \in 1..Len(mp) |->
     <<Mul(mp[i][1], CosDeg(mp[i][2])), Mul(mp[i][1], SinDeg(mp[i][2])), mp[i][4]>>]

\* The input files of a stand-alone run of test2.py.
RawTuples == {Floats(Data5C), Floats(Data5A), Floats(Data5B),
              <<-3000, 0, 0, 5000, 3000>>}
BodyLines == {Repr(t) : t \in RawTuples}
             \cup {Repr(<<3000, 4000, 0, 5000>>), Garbage, BlankLine, WordLine}
Bodies == UNION {[1..n -> BodyLines] : n \in 0..MaxFileLines}
ViewerFiles ==
  {NoFile, [exists |-> TRUE, lines |-> <<HdrPoints, Repr(<<3000, 4000, 0>>)>>]}
  \cup {[exists |-> TRUE, lines |-> pre \o <<HdrRaw>> \o b] :
          pre \in {<<>>, <<HdrPoints, Repr(<<3000, 4000, 0>>), BlankLine>>},
          b \in Bodies}

\* test2.py main: measurement_points = read_points_from_file('scanner_data.txt')
ViewRead ==
  /\ \/ prog = "viewer" /\ pc = "view"
     \/ prog = "scanner" /\ pc = "closed"  \* a later run, on the file just saved
  /\ measurement' = ReadPointsFromFile(file)
  /\ pc' = "loaded"
  /\ UNCHANGED <<prog, inbuf, sent, line, points, groups, raw, received,
                 interrupts, faults, scanning, matched, file, cart,
                 shown, dev, owed>>

\* test2.py main: `if not measurement_points: return`, else
\* points = convert_to_cartesian(measurement_points)
ViewConvert ==
  /\ prog \in {"viewer", "scanner"} /\ pc = "loaded"
  /\ IF measurement = <<>>
       THEN pc' = "nopoints" /\ cart' = cart
       ELSE pc' = "converted" /\ cart' = ConvertToCartesian(measurement)
  /\ UNCHANGED <<prog, inbuf, sent, line, points, groups, raw, received,
                 interrupts, faults, scanning, matched, file, measurement,
                 shown, dev, owed>>

\* ------------------------------------------------------------------- test.py
\* measurement_points, the list test.py hard-codes:
\* (distance, platform_angle, vertical_angle, height)
ScenarioA == <<<<80000, 0, 0, 0>>, <<80000, 90000, 0, 50000>>,
               <<80000, 180000, 0, 100000>>, <<80000, 270000, 0, 150000>>>>

\* Other arguments of convert_to_cartesian: the lists of up to MaxTuples tuples
TestTuples == {<<d, pa, va, h>> : d \in {5000, 80000},
                                  pa \in {0, 53130, 90000, 180000, 270000},
                                  va \in {0, 90000}, h \in {0, 50000}}
TestInputs == {ScenarioA} \cup UNION {[1..n -> TestTuples] : n \in 0..MaxTuples}

\* test.py, the script: points = convert_to_cartesian(measurement_points),
\* with no test for an empty list
TestConvert ==
  /\ prog = "test" /\ pc = "script"
  /\ cart' = ConvertToCartesian(measurement)
  /\ pc' = "converted"
  /\ UNCHANGED <<prog, inbuf, sent, line, points, groups, raw, received,
                 interrupts, faults, scanning, matched, file, measurement,
                 shown, dev, owed>>

\* ------------------------------------------ test3.py, test4.py ScannerVisualizer
Vis == {"vis3", "vis4"}

\* x, y, z = map(float, line.split(',')) raises no ValueError
ParsesXYZ(l) == Len(l) = 3 /\ AllFloat(l)

\* test3.py read_data, what it does with a line it has read
ReadData3(l) ==
  IF l = EmptyLine THEN "skip"
  ELSE IF Contains(l, "Scanner initialized") \/ Contains(l, "Starting") THEN "status"
  ELSE IF Contains(l, "Scan complete") THEN "complete"
  ELSE IF ParsesXYZ(l) THEN "point"
  ELSE "parse_error"

StatusWords4 == {"initialized", "configured", "detected", "starting", "ready", "Failed"}

\* test4.py read_data, what it does with a line it has read
ReadData4(l) ==
  IF ContainsAny(l, StatusWords4)
    THEN IF Contains(l, "Failed") THEN "failed" ELSE "status"
  ELSE IF Contains(l, "Scan complete") THEN "complete"
  ELSE IF Len(l) = 3 /\ ParsesXYZ(l) THEN "point"
  ELSE "ignored"

ReadData(p, l) == IF p = "vis3" THEN ReadData3(l) ELSE ReadData4(l)

\* start_scan: self.ser.write(b'\n'), the start byte, on which the rig begins
\* its scan; a write error is caught and printed, and scanning stays False
StartWrite ==
  /\ prog \in Vis /\ pc = "startwrite"
  /\ \E ok \in BOOLEAN :
       /\ pc' = IF ok THEN "setscan" ELSE "ticks"
       /\ dev' = IF ok THEN "scanning" ELSE dev
  /\ UNCHANGED <<prog, inbuf, sent, line, points, groups, raw, received,
                 interrupts, faults, scanning, matched, file, measurement, cart,
                 shown, owed>>

\* start_scan: self.scanning = True
StartSetScanning ==
  /\ prog \in Vis /\ pc = "setscan"
  /\ scanning' = TRUE
  /\ pc' = "reset"
  /\ UNCHANGED <<prog, inbuf, sent, line, points, groups, raw, received,
                 interrupts, faults, matched, file, measurement, cart,
                 shown, dev, owed>>

\* start_scan: self.ser.reset_input_buffer() (and reset_output_buffer); then
\* run() starts the animation
StartReset ==
  /\ prog \in Vis /\ pc = "reset"
  /\ inbuf' = <<>>
  /\ pc' = "ticks"
  /\ UNCHANGED <<prog, sent, line, points, groups, raw, received, interrupts,
                 faults, scanning, matched, file, measurement, cart,
                 shown, dev, owed>>

\* update_plot, one animation tick: `if self.scanning: self.read_data()`, the
\* value read_data returns being dropped.  read_data: a SerialException is
\* caught (return False); nothing waiting: return True; else one line is read
\* and handled.  (The device of these two scripts sends decodable lines only.)
UpdatePlot ==
  /\ prog \in Vis /\ pc = "ticks"
  /\ IF ~scanning
       THEN UNCHANGED <<inbuf, line, points, scanning, faults>>
       ELSE \E fault \in BOOLEAN :
         IF fault
           THEN /\ faults < MaxFaults
                /\ faults' = faults + 1
                /\ UNCHANGED <<inbuf, line, points, scanning>>
           ELSE /\ faults' = faults
                /\ IF inbuf = <<>>
                     THEN UNCHANGED <<inbuf, line, points, scanning>>
                     ELSE LET l == Head(inbuf)
                              o == ReadData(prog, l)
                          IN /\ inbuf' = Tail(inbuf)
                             /\ line' = l
                             /\ points' = IF o = "point"
                                            THEN Append(points, Floats(l))
                                            ELSE points
                             /\ scanning' = (o \notin {"complete", "failed"})
  /\ UNCHANGED <<prog, pc, sent, groups, raw, received, interrupts, matched,
                 file, measurement, cart,
                 shown, dev, owed>>

\* run(): plt.show() returns when the window is closed; self.ser.close()
VisClose ==
  /\ prog \in Vis /\ pc = "ticks"
  /\ pc' = "closed"
  /\ UNCHANGED <<prog, inbuf, sent, line, points, groups, raw, received,
                 interrupts, faults, scanning, matched, file, measurement, cart,
                 shown, dev, owed>>

Init ==
  /\ prog \in Progs
  /\ pc = CASE prog = "viewer" -> "view"
            [] prog = "test" -> "script"
            [] OTHER -> "connect"
  /\ inbuf = <<>>
  /\ sent = 0
  /\ line = NoLine
  /\ points = <<>>
  /\ groups = NoGroups
  /\ raw = <<>>
  /\ received = NoCollection
  /\ interrupts = 0
  /\ faults = 0
  /\ scanning = FALSE
  /\ matched = 0
  /\ file \in IF prog = "viewer" THEN ViewerFiles ELSE {NoFile}
  /\ measurement \in IF prog = "test" THEN TestInputs ELSE {<<>>}
  /\ cart = <<>>
  /\ shown = "none"
  /\ dev = "idle"
  /\ owed = <<>>

Next ==
  \/ DeviceSend
  \/ Connect
  \/ SerialPoll
  \/ SerialRead
  \/ SerialParse
  \/ SerialAppend
  \/ SerialInterrupt
  \/ ScanWrite
  \/ ScanPoll
  \/ ScanRead
  \/ ScanCheck
  \/ ScanValidTry
  \/ ScanStatus
  \/ ScanParse
  \/ ScanApp1
  \/ ScanApp2
  \/ ScanApp3
  \/ ScanInterruptSwallowed
  \/ ScanInterrupt
  \/ SerialMainSave
  \/ ScanMainSave
  \/ ViewRead
  \/ ViewConvert
  \/ StartWrite
  \/ StartSetScanning
  \/ StartReset
  \/ UpdatePlot
  \/ VisClose
  \/ TestConvert

Spec == Init /\ [][Next]_vars

\* ============================================================ properties
Capture == {"serial", "scanner"}

\* The script has left its read function and handed the result to main.
Ended == pc \in {"returned", "closed", "loaded", "nopoints", "converted"}

\* The read loop has finished with `line` and goes on polling for the next.
StillReading == pc \in {"poll", "read"}

\* C1: in read_scanner_data, once a line containing "Scan complete!" has been
\* processed the session is Completed by that line alone (the read loop has
\* stopped, no interrupt was needed), and after exactly the lines of ScenarioC
\* the function has returned exactly one sample.
C1_CompleteMarkerEndsSession ==
  prog = "scanner"
  => /\ Contains(line, "Scan complete!") => ~StillReading
     /\ matched = Len(ScenarioC)
          => (Ended /\ interrupts = 0 /\ Len(received.points) = 1)

\* C2: when read_serial_data or read_scanner_data ends by a read fault or an
\* undecodable line after samples were accepted, main has received every
\* accepted sample.
C2_FailureKeepsSamples ==
  (prog \in Capture /\ pc = "crashed" /\ points # <<>>)
  => received.points = points

\* C3: every user interrupt delivered during the read loop makes the function
\* return, and what it returns is exactly the samples accepted so far, in
\* arrival order.
C3_InterruptReturnsPartial ==
  [][(prog \in Capture /\ interrupts' = interrupts + 1)
       => (pc' = "returned" /\ received'.points = points)]_vars

RECURSIVE GroupSum(_, _)
GroupSum(g, keys) ==
  IF keys = {} THEN 0
  ELSE LET k == CHOOSE x \in keys : TRUE
       IN Len(g[k]) + GroupSum(g, keys \ {k})

RECURSIVE PointsAtAngle(_, _, _)
\* The points of pl whose raw tuple (same index in rd) has vertical angle a.
PointsAtAngle(pl, rd, a) ==
  IF pl = <<>> \/ rd = <<>> THEN <<>>
  ELSE (IF Head(rd)[4] = a THEN <<Head(pl)>> ELSE <<>>)
       \o PointsAtAngle(Tail(pl), Tail(rd), a)

Grouped(c) ==
  /\ Len(c.points) = Len(c.raw)
  /\ Len(c.points) = GroupSum(c.groups, DOMAIN c.groups)
  /\ \A i \in 1..Len(c.raw) : c.raw[i][4] \in DOMAIN c.groups
  /\ \A a \in DOMAIN c.groups : c.groups[a] = PointsAtAngle(c.points, c.raw, a)

\* C4: whatever ended the loop, the collection read_scanner_data returns is
\* grouped: each group holds the points of its vertical angle in the order of
\* points_list, and len(points_list) = sum of the group lengths = len(raw_data).
C4_GroupingOfReturned ==
  (prog = "scanner" /\ pc = "returned") => Grouped(received)

\* The schema arity of a variant, and the status substrings it looks for.
Arity(p) == CASE p = "serial" -> 4 [] p = "scanner" -> 5 [] OTHER -> 3

StatusPhrases(p) ==
  CASE p = "serial" -> {}
    [] p = "scanner" -> BootMessages \cup {"Scan complete!"}
    [] OTHER -> StatusWords4 \cup {"Scan complete"}

NoiseLine(p, l) ==
  /\ l = EmptyLine \/ ~AllFloat(l) \/ Len(l) # Arity(p)
  /\ ~ContainsAny(l, StatusPhrases(p))

\* A tick of update_plot reads a line.
ReadsLine == inbuf # <<>> /\ inbuf' = Tail(inbuf) /\ sent' = sent

\* C5: the steps that process a noise line (read_serial_data, read_scanner_data,
\* test4.py read_data) leave the points, the grouping and the raw tuples as
\* they were, and the session keeps scanning.
C5_NoiseLeavesAggregate ==
  [][/\ (prog \in Capture /\ NoiseLine(prog, line)
           /\ pc \in LoopPcs \ {"poll", "read"}
           /\ interrupts' = interrupts /\ faults' = faults)
        => (points' = points /\ groups' = groups /\ raw' = raw /\ pc' \in LoopPcs)
     /\ (prog = "vis4" /\ pc = "ticks" /\ scanning /\ ReadsLine
           /\ NoiseLine(prog, Head(inbuf)))
        => (points' = points /\ scanning')]_vars

\* read_scanner_data has processed the noise line Bad5 after accepting a sample.
C5_Witness ==
  /\ prog = "scanner" /\ pc = "poll" /\ line = Bad5 /\ NoiseLine(prog, line)
  /\ Len(points) = 1 /\ Len(raw) = 1

Close(a, b) == a - b <= Tol /\ b - a <= Tol

\* C6: a collection returned by read_scanner_data, saved by save_data_to_file,
\* read back by read_points_from_file and converted by convert_to_cartesian
\* gives as many points as points_list, the i-th equal to points_list[i]
\* within the tolerance.
C6_PersistenceRoundTrip ==
  (prog = "scanner" /\ pc = "converted")
  => /\ Len(cart) = Len(received.points)
     /\ \A i \in 1..Len(cart) :
          \A k \in 1..3 : Close(cart[i][k], received.points[i][k])

RECURSIVE RawSection(_, _)
\* The evaluated tuples of the lines read_points_from_file takes for tuples.
RawSection(ls, started) ==
  IF ls = <<>> THEN <<>>
  ELSE IF IsRawHeader(Head(ls)) THEN RawSection(Tail(ls), TRUE)
  ELSE IF started /\ NonBlank(Head(ls)) /\ HasComma(Head(ls))
    THEN <<Head(ls)>> \o RawSection(Tail(ls), started)
    ELSE RawSection(Tail(ls), started)

BadRawLine(l) == ~Evaluable(l) \/ Len(Eval(l)) # 5

\* C7: for every 5-tuple (x, y, z, vertical_angle, vertical_distance) of the
\* raw-data section read_points_from_file returns (distance, platform_angle,
\* vertical_angle, height) with distance = sqrt(x*x + y*y), platform_angle =
\* atan2(y, x) in degrees folded into [0, 360), vertical_angle unchanged and
\* height = z.
C7_InverseTransform ==
  (pc = "loaded" /\ file.exists)
  => LET sec == RawSection(file.lines, FALSE)
     IN (\A i \in 1..Len(sec) : ~BadRawLine(sec[i]))
        => /\ Len(measurement) = Len(sec)
           /\ \A i \in 1..Len(sec) :
                LET v == Eval(sec[i])
                    m == measurement[i]
                IN /\ Close(m[1], Sqrt(v[1] * v[1] + v[2] * v[2]))
                   /\ m[2] = Normalize(Atan2Deg(v[2], v[1]))
                   /\ 0 <= m[2] /\ m[2] < 360000
                   /\ m[3] = v[4]
                   /\ m[4] = v[3]

\* C8: when the file is missing, or a line of the raw-data section taken for
\* a tuple does not evaluate or has not exactly 5 components,
\* read_points_from_file returns the empty list, also when earlier lines of
\* the section were parsed.
C8_ReadFaultYieldsEmpty ==
  (pc = "loaded"
     /\ (~file.exists
         \/ \E i \in 1..Len(RawSection(file.lines, FALSE)) :
              BadRawLine(RawSection(file.lines, FALSE)[i])))
  => measurement = <<>>

\* A file whose raw-data section holds a good 5-tuple, then a bad line, was read.
C8_Witness ==
  /\ pc = "loaded" /\ file.exists /\ measurement = <<>>
  /\ LET sec == RawSection(file.lines, FALSE)
     IN Len(sec) >= 2 /\ ~BadRawLine(sec[1]) /\ BadRawLine(sec[2])

\* C9: after read_data of ScannerVisualizer hit a serial read error, no later
\* tick of update_plot reads a line or appends a point.
C9_ReadFaultIsTerminal ==
  [][(prog \in Vis /\ pc = "ticks" /\ faults > 0)
       => (~ReadsLine /\ points' = points)]_vars

\* C10: in both ScannerVisualizer variants a line containing "Failed" read
\* while scanning stops the scanning and is not appended as a point, and no
\* later tick reads a line.
C10_DeviceErrorIsTerminal ==
  [][(prog \in Vis /\ pc = "ticks")
       => /\ (ReadsLine /\ Contains(Head(inbuf), "Failed"))
               => (~scanning' /\ points' = points)
          /\ Contains(line, "Failed") => ~ReadsLine]_vars

\* The tick of update_plot that reads the line at the head of the buffer.
TickReads == prog \in Vis /\ pc = "ticks" /\ ReadsLine

\* The step of read_scanner_data that has skipped `line` and prints its status.
StatusStep == prog = "scanner" /\ pc = "status" /\ pc' = "poll"

\* C11: every line that contains "Scan complete" is handled as the completion
\* status and is never aggregated, whatever else it contains: read_data (both
\* variants) stops the scanning on it and appends nothing, and
\* read_scanner_data skips it and prints the completion message.
C11_CompletionAlwaysRecognised ==
  [][/\ (TickReads /\ Contains(Head(inbuf), "Scan complete"))
          => (~scanning' /\ points' = points)
     /\ (prog = "scanner" /\ pc = "validtry" /\ Contains(line, "Scan complete"))
          => pc' # "parse"
     /\ (StatusStep /\ Contains(line, "Scan complete"))
          => shown' = "completed"]_vars

\* The points of Scenario A, in thousandths.
ScenarioAPoints == <<<<80000, 0, 0>>, <<0, 80000, 50000>>,
                     <<-80000, 0, 100000>>, <<0, -80000, 150000>>>>

\* C12: convert_to_cartesian returns one point per tuple, in the order of the
\* tuples, with x = distance*cos(platform_angle), y = distance*sin(platform_angle)
\* and z = height, whatever the vertical angle; the list of Scenario A gives
\* (80,0,0), (0,80,50), (-80,0,100), (0,-80,150).
C12_ForwardConversion ==
  pc = "converted" =>
    /\ Len(cart) = Len(measurement)
    /\ \A i \in 1..Len(measurement) :
         LET distance == measurement[i][1]
             platform_angle == measurement[i][2]
             height == measurement[i][4]
         IN cart[i] = <<Mul(distance, CosDeg(platform_angle)),
                        Mul(distance, SinDeg(platform_angle)), height>>
    /\ measurement = ScenarioA => cart = ScenarioAPoints

C12_Witness == prog = "test" /\ pc = "converted" /\ measurement = ScenarioA

IsPrefix(a, b) == Len(a) <= Len(b) /\ SubSeq(b, 1, Len(a)) = a

\* C13: across every step of a session the point sequence before the step is a
\* prefix of the one after it (and so for the raw tuples and for each angle's
\* group), and each step that accepts a sample adds exactly that sample at the
\* end, whether or not an equal one is already there.
C13_CollectionsOnlyGrow ==
  [][(prog \in Capture \cup Vis) =>
       /\ IsPrefix(points, points')
       /\ IsPrefix(raw, raw')
       /\ \A a \in DOMAIN groups :
            a \in DOMAIN groups' /\ IsPrefix(groups[a], groups'[a])
       /\ (prog = "serial" /\ pc = "append" /\ pc' = "poll")
            => points' = Append(points, Floats(line))
       /\ (prog = "scanner" /\ pc = "app1" /\ pc' = "app2")
            => points' = Append(points, Point3d(line))
       /\ (TickReads /\ ReadData(prog, Head(inbuf)) = "point")
            => points' = Append(points, Floats(Head(inbuf)))]_vars

\* read_scanner_data has accepted the same data line twice and holds two
\* equal entries.
C13_Witness ==
  /\ prog = "scanner" /\ pc = "poll"
  /\ Len(points) = 2 /\ points[1] = points[2]
  /\ Len(raw) = 2 /\ raw[1] = raw[2]

\* C14: in both ScannerVisualizer variants, once a line containing
\* "Scan complete" has been processed scanning is false and stays false, and
\* no later step reads a line or changes points, whatever is still buffered.
C14_CompletedIsTerminal ==
  [][(prog \in Vis /\ Contains(line, "Scan complete"))
       => (~scanning /\ ~scanning' /\ ~ReadsLine /\ points' = points)]_vars

\* The samples among the lines still waiting in the input buffer, in order.
Pending ==
  LET waiting == SelectSeq(inbuf, IsSample)
  IN [i \in 1..Len(waiting) |-> Floats(waiting[i])]

\* a can be obtained from b by leaving entries out.
RECURSIVE IsSubseq(_, _)
IsSubseq(a, b) ==
  IF a = <<>> THEN TRUE
  ELSE IF b = <<>> THEN FALSE
  ELSE IF Head(a) = Head(b) THEN IsSubseq(Tail(a), Tail(b))
  ELSE IsSubseq(a, Tail(b))

\* C15: no sample the rig sends after it got the start byte and before its
\* completion marker is dropped by ScannerVisualizer: at every moment each such
\* sample, in the order sent, is in points or still waiting in the input
\* buffer to be read by a later tick, whatever the interleaving of the rig's
\* output with the steps of start_scan and with the ticks.
C15_NoStartedSampleDropped ==
  prog \in Vis => IsSubseq(owed, points \o Pending)

====
